---- MODULE Spec2Model ----
(***************************************************************************)
(* Model of src/Code.ipynb: degradation rate, BIC and BV/TV of segmented   *)
(* micro-CT label volumes.                                                 *)
(*                                                                         *)
(* An image stack is a sequence of slices, a slice a sequence of rows, a   *)
(* row a sequence of integer labels: image[z][y][x], 1-based where numpy   *)
(* is 0-based.  A number carries its Python type, because the type decides *)
(* what a division by zero does: int and float raise ZeroDivisionError,    *)
(* numpy scalars return inf or nan.  Floats are modelled as exact          *)
(* rationals num/den (rounding is not modelled).                           *)
(***************************************************************************)
EXTENDS Integers, Sequences, FiniteSets, TLC

VARIABLES ref_image, target_image, num_days, pixel_size, label_dict, img_size,
          ret, arg_image, arg_label1, arg_label2, arg_roi, fn_ret

sample_vars == <<ref_image, target_image, num_days, pixel_size, label_dict, img_size, ret>>
fn_vars == <<arg_image, arg_label1, arg_label2, arg_roi, fn_ret>>
vars == <<ref_image, target_image, num_days, pixel_size, label_dict, img_size,
          ret, arg_image, arg_label1, arg_label2, arg_roi, fn_ret>>

(***************************************************************************)
(* Bounds of the model.                                                    *)
(***************************************************************************)
\* longest 1 x 1 x N stack handed to the module-level functions
MaxLen == 4
\* largest label value stored in those stacks; the label arguments range
\* over 0 .. MaxLabel + 1, one value past the largest stored one
MaxLabel == 2
\* get_bone_volume_to_total_volume is called with roi_size = 500 * k
\* micrometers, k in 0 .. MaxRoi
MaxRoi == 2

(***************************************************************************)
(* Numbers and call outcomes.                                              *)
(***************************************************************************)
Abs(n) == IF n < 0 THEN -n ELSE n

RECURSIVE Gcd(_, _)
Gcd(a, b) == IF b = 0 THEN a ELSE Gcd(b, a % b)

SetMin(S) == CHOOSE m \in S : \A n \in S : m <= n
SetMax(S) == CHOOSE m \in S : \A n \in S : n <= m

\* fl: "finite", "inf", "-inf" or "nan"
Num(ty, n, d) ==
    LET g == Gcd(Abs(n), Abs(d))
        s == IF d < 0 THEN -1 ELSE 1
    IN  [ty |-> ty, num |-> s * (n \div g), den |-> s * (d \div g), fl |-> "finite"]
NonFinite(ty, fl) == [ty |-> ty, num |-> 0, den |-> 1, fl |-> fl]
None == [ty |-> "None", num |-> 0, den |-> 1, fl |-> "finite"]

PyInt(n) == Num("int", n, 1)
NpInt(n) == Num("np.int64", n, 1)
PyFloat(n, d) == Num("float", n, d)

IsNumpy(a) == a.ty \in {"np.int64", "np.float64"}
IsFloat(a) == a.ty \in {"float", "np.float64"}
IsZero(a) == a.fl = "finite" /\ a.num = 0

\* type of the result of + - * on a and b
ArithType(a, b) ==
    IF IsNumpy(a) \/ IsNumpy(b)
    THEN (IF IsFloat(a) \/ IsFloat(b) THEN "np.float64" ELSE "np.int64")
    ELSE (IF IsFloat(a) \/ IsFloat(b) THEN "float" ELSE "int")

\* type of the result of the true division a / b
DivType(a, b) == IF IsNumpy(a) \/ IsNumpy(b) THEN "np.float64" ELSE "float"

Return(v) == [kind |-> "return", exc |-> "", val |-> v]
Raise(e) == [kind |-> "raise", exc |-> e, val |-> None]

\* a * b and a - b on finite operands
Mul(a, b) == Num(ArithType(a, b), a.num * b.num, a.den * b.den)
Sub(a, b) == Num(ArithType(a, b), a.num * b.den - b.num * a.den, a.den * b.den)
Add(a, b) == Num(ArithType(a, b), a.num * b.den + b.num * a.den, a.den * b.den)

\* a / b.  A zero divisor: Python's own int and float raise
\* ZeroDivisionError; as soon as one operand is a numpy scalar the division
\* is numpy's, which warns and returns inf, -inf or nan.
DivNumpyByZero(a, b) ==
    Return(NonFinite("np.float64",
                     IF a.num = 0 THEN "nan" ELSE IF a.num > 0 THEN "inf" ELSE "-inf"))
\* a division that is numpy's whatever the operands
TrueDivNeverRaises(a, b) ==
    IF a.fl # "finite" \/ b.fl # "finite"
    THEN Return(NonFinite(DivType(a, b), "nan"))
    ELSE IF b.num = 0
         THEN DivNumpyByZero(a, b)
         ELSE Return(Num(DivType(a, b), a.num * b.den, a.den * b.num))
TrueDiv(a, b) ==
    IF a.fl # "finite" \/ b.fl # "finite"
    THEN Return(NonFinite(DivType(a, b), "nan"))
    ELSE IF b.num = 0
         THEN (IF IsNumpy(a) \/ IsNumpy(b)
               THEN DivNumpyByZero(a, b)
               ELSE Raise("ZeroDivisionError"))
         ELSE Return(Num(DivType(a, b), a.num * b.den, a.den * b.num))

\* Python 3 round(n / d) for n >= 0, d > 0: to the nearest integer, a tie to
\* the even one
PyRound(n, d) ==
    LET q == n \div d
        r == n % d
    IN  IF 2 * r < d THEN q
        ELSE IF 2 * r > d THEN q + 1
        ELSE IF q % 2 = 0 THEN q ELSE q + 1

\* floor of the square root: a float distance stored into a uint16 buffer
Isqrt(n) == CHOOSE r \in 0..n : r * r <= n /\ n < (r + 1) * (r + 1)

(***************************************************************************)
(* Arrays.                                                                 *)
(***************************************************************************)
\* indices of a 3D stack and of a 2D slice
Voxels(image) ==
    {<<z, y, x>> : z \in 1..Len(image), y \in 1..Len(image[1]), x \in 1..Len(image[1][1])}
Pixels(layer) == {<<y, x>> : y \in 1..Len(layer), x \in 1..Len(layer[1])}

\* image.ravel(): the values by index
Flat3(image) == [p \in Voxels(image) |-> image[p[1]][p[2]][p[3]]]
Flat2(layer) == [p \in Pixels(layer) |-> layer[p[1]][p[2]]]

\* an array whose elements are stored: the same value as a, built element
\* by element, so that every element is computed once and not on each
\* access (ToSeq for a row, Stored2 for a slice, Stored for a stack)
ToSeq(f) ==
    LET build[i \in 0..Cardinality(DOMAIN f)] ==
            IF i = 0 THEN <<>> ELSE Append(build[i - 1], f[i])
    IN  build[Cardinality(DOMAIN f)]
Stored2(a) == ToSeq([y \in DOMAIN a |-> ToSeq(a[y])])
Stored(a) == ToSeq([z \in DOMAIN a |-> Stored2(a[z])])

Stacks(nz, ny, nx, labels) == [1..nz -> [1..ny -> [1..nx -> labels]]]

\* np.count_nonzero of a boolean array given as the set of its true indices:
\* a Python int
CountNonzero(S) == Cardinality(S)

\* skimage.exposure.histogram of an integer array with values >= 0:
\* bin_centers = arange(min, max + 1), one bin for EVERY integer between
\* the smallest and the largest value present, and hist = bincount(...)
\* cut to start at the smallest value, so hist[i] counts the value min + i.
\* Both are 0-based.
histogram(flat) ==
    LET vals == {flat[p] : p \in DOMAIN flat}
        lo == SetMin(vals)
        hi == SetMax(vals)
    IN  [hist |-> [i \in 0..(hi - lo) |-> Cardinality({p \in DOMAIN flat : flat[p] = lo + i})],
         centers |-> [i \in 0..(hi - lo) |-> lo + i]]

\* "x in histogram[1]"
InCenters(h, label) == \E i \in DOMAIN h.centers : h.centers[i] = label

(***************************************************************************)
(* The module-level functions.                                             *)
(***************************************************************************)
\* a value stored into an int8 array
Int8(v) == ((v + 128) % 256) - 128

\* one turn of the loop of filter_labels: selection is a copy of the image
\* with every voxel that is not the label set to 0, and the label is stored
\* into filtered_img wherever selection == label.  For label 0 that is
\* everywhere.
FilterLabel(image, filtered_img, label) ==
    [z \in 1..Len(image) |->
        [y \in 1..Len(image[z]) |->
            [x \in 1..Len(image[z][y]) |->
                LET selection == IF image[z][y][x] = label THEN image[z][y][x] ELSE 0
                IN  IF selection = label THEN Int8(label) ELSE filtered_img[z][y][x]]]]

\* filter_labels after the first n labels of the list; an int8 array of
\* zeros before the first
RECURSIVE FilterLabels(_, _, _)
FilterLabels(image, labels, n) ==
    IF n = 0
    THEN [z \in 1..Len(image) |->
             [y \in 1..Len(image[z]) |-> [x \in 1..Len(image[z][y]) |-> 0]]]
    ELSE FilterLabel(image, Stored(FilterLabels(image, labels, n - 1)), labels[n])

\* filter_labels: a new array, the image is only read
filter_labels(image, labels) == FilterLabels(image, labels, Len(labels))

\* count_voxels_per_label: np.where(histogram[1] == label)[0][0] is an
\* IndexError when no bin centre equals the label
count_voxels_per_label(image, label) ==
    LET h == histogram(Flat3(image))
        found == {i \in DOMAIN h.centers : h.centers[i] = label}
    IN  IF found = {}
        THEN Raise("IndexError")
        ELSE Return(NpInt(h.hist[SetMin(found)]))

\* image[:, :, :-1] == first and image[:, :, 1:] == second, and the same
\* along y and z: the true positions of the logical_and
XContact(image, first, second) ==
    {p \in Voxels(image) : /\ p[3] < Len(image[1][1])
                           /\ image[p[1]][p[2]][p[3]] = first
                           /\ image[p[1]][p[2]][p[3] + 1] = second}
YContact(image, first, second) ==
    {p \in Voxels(image) : /\ p[2] < Len(image[1])
                           /\ image[p[1]][p[2]][p[3]] = first
                           /\ image[p[1]][p[2] + 1][p[3]] = second}
ZContact(image, first, second) ==
    {p \in Voxels(image) : /\ p[1] < Len(image)
                           /\ image[p[1]][p[2]][p[3]] = first
                           /\ image[p[1] + 1][p[2]][p[3]] = second}

\* the three comparisons in the order (label1, label2) alone
ContactVoxelsOneOrder(image, label1, label2) ==
    CountNonzero(XContact(image, label1, label2))
    + CountNonzero(YContact(image, label1, label2))
    + CountNonzero(ZContact(image, label1, label2))
ContactVoxels(image, label1, label2) ==
    CountNonzero(XContact(image, label1, label2)) + CountNonzero(XContact(image, label2, label1))
    + CountNonzero(YContact(image, label1, label2)) + CountNonzero(YContact(image, label2, label1))
    + CountNonzero(ZContact(image, label1, label2)) + CountNonzero(ZContact(image, label2, label1))

\* a label test that one label alone passes
LabelsExistEither(h, label1, label2) == InCenters(h, label1) \/ InCenters(h, label2)
\* a label test of the first label alone
LabelsExistFirst(h, label1, label2) == InCenters(h, label1)
\* the label test of contact_area and contact_area_layer
LabelsExist(h, label1, label2) == ~(~InCenters(h, label1) \/ ~InCenters(h, label2))

contact_area(image, label1, label2) ==
    IF ~LabelsExist(histogram(Flat3(image)), label1, label2)
    THEN Raise("ValueError")
    ELSE Return(PyInt(ContactVoxels(image, label1, label2)))

\* contact_area_layer: the same on one 2D slice, x and y only
XContactLayer(layer, first, second) ==
    {p \in Pixels(layer) : /\ p[2] < Len(layer[1])
                           /\ layer[p[1]][p[2]] = first
                           /\ layer[p[1]][p[2] + 1] = second}
YContactLayer(layer, first, second) ==
    {p \in Pixels(layer) : /\ p[1] < Len(layer)
                           /\ layer[p[1]][p[2]] = first
                           /\ layer[p[1] + 1][p[2]] = second}

ContactVoxelsLayer(layer, label1, label2) ==
    CountNonzero(XContactLayer(layer, label1, label2)) + CountNonzero(XContactLayer(layer, label2, label1))
    + CountNonzero(YContactLayer(layer, label1, label2)) + CountNonzero(YContactLayer(layer, label2, label1))

contact_area_layer(layer, label1, label2) ==
    IF ~LabelsExist(histogram(Flat2(layer)), label1, label2)
    THEN Raise("ValueError")
    ELSE Return(PyInt(ContactVoxelsLayer(layer, label1, label2)))

\* np.logical_not of a boolean slice
LogicalNot(item) == [y \in 1..Len(item) |-> [x \in 1..Len(item[y]) |-> ~item[y][x]]]

\* scipy.ndimage.distance_transform_edt(input), squared: for a pixel where
\* input is true the squared distance to the nearest pixel where it is
\* false, and 0 where it is false.  When input is false nowhere the feature
\* transform finds no site and keeps its initial entries (-1, 0), so the
\* distance is the one to the position one row above the first pixel of
\* the slice.
SquaredEdt(input, p) ==
    LET sites == {q \in Pixels(input) : ~input[q[1]][q[2]]}
    IN  IF sites = {}
        THEN p[1] * p[1] + (p[2] - 1) * (p[2] - 1)
        ELSE SetMin({(p[1] - q[1]) * (p[1] - q[1]) + (p[2] - q[2]) * (p[2] - q[2]) : q \in sites})

\* distance_map[:][:] = distance_transform_edt(...): the float distances
\* stored into the uint16 buffer of shape img_size
DistanceMap(input, isz) ==
    Stored2([y \in 1..isz[1] |-> [x \in 1..isz[2] |-> Isqrt(SquaredEdt(input, <<y, x>>)) % 65536]])

\* round(roi_size / pixel_size)
MaskSize(roi_size, ps) == PyRound(roi_size, ps)

\* a mask that takes the voxels at distance mask_size in
RoiMaskInclusive(binary_mask, mask_size, isz) ==
    [z \in 1..Len(binary_mask) |->
        LET distance_map == DistanceMap(Stored2(LogicalNot(binary_mask[z])), isz)
        IN  [y \in 1..isz[1] |-> [x \in 1..isz[2] |-> distance_map[y][x] <= mask_size]]]

\* roi_mask.append(distance_map < mask_size) for every slice of binary_mask
RoiMask(binary_mask, mask_size, isz) ==
    [z \in 1..Len(binary_mask) |->
        LET distance_map == DistanceMap(Stored2(LogicalNot(binary_mask[z])), isz)
        IN  [y \in 1..isz[1] |-> [x \in 1..isz[2] |-> distance_map[y][x] < mask_size]]]

\* a masking that clears a voxel outside the ROI which holds the fill value
create_roi_mask_clearing(ref_img, target_img, roi_size, ps, mask_pixel_value, isz) ==
    LET binary_mask == [z \in 1..Len(ref_img) |->
                           [y \in 1..Len(ref_img[z]) |->
                               [x \in 1..Len(ref_img[z][y]) |-> ref_img[z][y][x] > 0]]]
        roi_mask == Stored(RoiMask(binary_mask, MaskSize(roi_size, ps), isz))
    IN  [z \in 1..Len(target_img) |->
            [y \in 1..Len(target_img[z]) |->
                [x \in 1..Len(target_img[z][y]) |->
                    IF roi_mask[z][y][x] THEN target_img[z][y][x]
                    ELSE IF target_img[z][y][x] = mask_pixel_value
                         THEN mask_pixel_value + 1 ELSE mask_pixel_value]]]

\* create_roi_mask.  The returned array is target_img itself, written in
\* place: what the caller passed is what the function changed.
\* img_size is the shape of every slice (a precondition of the code).
create_roi_mask(ref_img, target_img, roi_size, ps, mask_pixel_value, isz) ==
    LET binary_mask == [z \in 1..Len(ref_img) |->
                           [y \in 1..Len(ref_img[z]) |->
                               [x \in 1..Len(ref_img[z][y]) |-> ref_img[z][y][x] > 0]]]
        mask_size == MaskSize(roi_size, ps)
        roi_mask == Stored(RoiMask(binary_mask, mask_size, isz))
    IN  [z \in 1..Len(target_img) |->
            [y \in 1..Len(target_img[z]) |->
                [x \in 1..Len(target_img[z][y]) |->
                    IF roi_mask[z][y][x] THEN target_img[z][y][x] ELSE mask_pixel_value]]]

(***************************************************************************)
(* class Sample.  self is the record of the object's fields.               *)
(***************************************************************************)
Self == [ref_image |-> ref_image, target_image |-> target_image, num_days |-> num_days,
         pixel_size |-> pixel_size, label_dict |-> label_dict, img_size |-> img_size]

\* roi_size of get_BIC_images
BicRoiSize == 1000
DaysPerYear == 365

\* (pixel_size ** 3) / 1e09 and (pixel_size ** 2) / 1e06
ToMm3(ps) == PyFloat(ps * ps * ps, 1000000000)
ToMm2(ps) == PyFloat(ps * ps, 1000000)

get_initial_volume(self) ==
    LET n == count_voxels_per_label(self.ref_image, self.label_dict.screw_ref)
    IN  IF n.kind = "raise" THEN n ELSE Return(Mul(n.val, ToMm3(self.pixel_size)))

get_residual_volume(self) ==
    LET n == count_voxels_per_label(self.target_image, self.label_dict.screw)
    IN  IF n.kind = "raise" THEN n ELSE Return(Mul(n.val, ToMm3(self.pixel_size)))

get_initial_area(self) ==
    LET n == contact_area(self.ref_image, self.label_dict.background, self.label_dict.screw_ref)
    IN  IF n.kind = "raise" THEN n ELSE Return(Mul(n.val, ToMm2(self.pixel_size)))

get_time(self) == Return(PyFloat(self.num_days, DaysPerYear))

\* dr = (v_i - v_res) / (a_i * t), after the printed volume loss
\* ((v_i - v_res) / v_i) * 100
DegradationRate(v_i, v_res, a_i, t) == TrueDiv(Sub(v_i, v_res), Mul(a_i, t))
get_degradation_rate(self) ==
    LET v_i == get_initial_volume(self)
        v_res == get_residual_volume(self)
        a_i == get_initial_area(self)
        vl == TrueDiv(Sub(v_i.val, v_res.val), v_i.val)
        t == get_time(self)
    IN  IF v_i.kind = "raise" THEN v_i
        ELSE IF v_res.kind = "raise" THEN v_res
        ELSE IF a_i.kind = "raise" THEN a_i
        ELSE IF vl.kind = "raise" THEN vl
        ELSE DegradationRate(v_i.val, v_res.val, a_i.val, t.val)

\* screw[screw == from] = to
Remap(image, from, to) ==
    [z \in 1..Len(image) |->
        [y \in 1..Len(image[z]) |->
            [x \in 1..Len(image[z][y]) |->
                IF image[z][y][x] = from THEN Int8(to) ELSE image[z][y][x]]]]

\* screw_bone + screw on int8 arrays
AddImages(a, b) ==
    [z \in 1..Len(a) |->
        [y \in 1..Len(a[z]) |-> [x \in 1..Len(a[z][y]) |-> Int8(a[z][y][x] + b[z][y][x])]]]

\* get_BIC_images: both images are fresh arrays made by filter_labels, and
\* create_roi_mask writes into those
get_BIC_images(self, use_roi) ==
    LET d == self.label_dict
        screw == Stored(Remap(filter_labels(self.target_image,
                                            <<d.screw, d.degradation_layer>>),
                              d.degradation_layer, d.screw))
        screw_bone == Stored(AddImages(filter_labels(self.target_image, <<d.bone>>), screw))
    IN  IF use_roi
        THEN <<Stored(create_roi_mask(self.ref_image, screw, BicRoiSize, self.pixel_size,
                                      Int8(d.background), self.img_size)),
               Stored(create_roi_mask(self.ref_image, screw_bone, BicRoiSize, self.pixel_size,
                                      Int8(d.background), self.img_size))>>
        ELSE <<screw, screw_bone>>

\* bic = contact_implant_bone / contact_background_implant, two Python ints
get_bone_to_implant_contact(self) ==
    LET images == get_BIC_images(self, TRUE)
        contact_implant_bone ==
            contact_area(images[2], self.label_dict.screw, self.label_dict.bone)
        contact_background_implant ==
            contact_area(images[1], self.label_dict.screw, self.label_dict.background)
    IN  IF contact_implant_bone.kind = "raise" THEN contact_implant_bone
        ELSE IF contact_background_implant.kind = "raise" THEN contact_background_implant
        ELSE TrueDiv(contact_implant_bone.val, contact_background_implant.val)

\* histogram[0][label]: the entry at POSITION label of the counts, an
\* IndexError past their end
HistAt(h, label) ==
    IF label \in DOMAIN h.hist THEN Return(NpInt(h.hist[label])) ELSE Raise("IndexError")

\* v_roi = v_bone + histogram[0][background]; bv_tv = v_bone / v_roi
BvTv(v_bone, v_background) == TrueDiv(v_bone, Add(v_bone, v_background))

\* get_bone_volume_to_total_volume: create_roi_mask is handed
\* self.target_image itself, so the masked stack IS the Sample's target
\* from then on, whatever the rest of the call does.
\* [out: what the call returns or raises, target_image: the field after it]
get_bone_volume_to_total_volume(self, roi_size) ==
    LET masked_stack == Stored(create_roi_mask(self.ref_image, self.target_image, roi_size,
                                               self.pixel_size, self.label_dict.screw,
                                               self.img_size))
        h == histogram(Flat3(masked_stack))
        v_bone == HistAt(h, self.label_dict.bone)
        v_background == HistAt(h, self.label_dict.background)
    IN  [out |-> IF v_bone.kind = "raise" THEN v_bone
                 ELSE IF v_background.kind = "raise" THEN v_background
                 ELSE BvTv(v_bone.val, v_background.val),
         target_image |-> masked_stack]

(***************************************************************************)
(* The Sample as a state machine: one action per method call.              *)
(***************************************************************************)
\* label dictionaries: five distinct codes >= 0.  The first has background
\* 0 and screw 1, as in the docstring of Sample; the second uses 3 and 2
\* for the two labels of the reference, as the per-slice cell does, and 0
\* for the screw; the third gives 0 to none of the labels of a target.
LabelDicts ==
    { [background |-> 0, screw |-> 1, screw_ref |-> 2, bone |-> 3, degradation_layer |-> 4],
      [background |-> 3, screw |-> 0, screw_ref |-> 2, bone |-> 1, degradation_layer |-> 4],
      [background |-> 1, screw |-> 2, screw_ref |-> 0, bone |-> 3, degradation_layer |-> 4] }

\* shape (Z, Y, X) of the two stacks of a Sample
SampleShape == <<2, 1, 2>>
PixelSizes == {500, 1000}
Days == {0, 28}
RoiSizes == {500 * k : k \in 0..MaxRoi}

\* The Samples constructed.  Every voxel holds a code of the dictionary.
Slices(labels) == [1..SampleShape[2] -> [1..SampleShape[3] -> labels]]
SampleStacks(labels) == [1..SampleShape[1] -> Slices(labels)]
Repeated(slice) == [z \in 1..SampleShape[1] |-> slice]

\* a reference slice without implant, and one with the implant in its
\* first pixel
ImplantSlices(d) ==
    { [y \in 1..SampleShape[2] |-> [x \in 1..SampleShape[3] |-> d.background]],
      [y \in 1..SampleShape[2] |-> [x \in 1..SampleShape[3] |->
          IF y = 1 /\ x = 1 THEN d.screw_ref ELSE d.background]] }

\* every reference over three labels, with a target of equal slices of
\* background and screw, at every number of days and the smallest pixel size
DegradationSamples ==
    UNION { { [label_dict |-> d, ref_image |-> r, target_image |-> Repeated(t),
               num_days |-> n, pixel_size |-> SetMin(PixelSizes)] :
              r \in SampleStacks({d.background, d.screw_ref, d.screw}),
              t \in Slices({d.background, d.screw}),
              n \in Days } : d \in LabelDicts }

\* the targets of a scan: background, screw and bone, or screw and
\* degradation layer alone
RoiTargets(d) ==
    SampleStacks({d.background, d.screw, d.bone})
        \cup SampleStacks({d.screw, d.degradation_layer})

\* every such target, with a reference of implant slices, at every pixel size
RoiSamples ==
    UNION { { [label_dict |-> d, ref_image |-> r, target_image |-> t,
               num_days |-> SetMax(Days), pixel_size |-> p] :
              r \in [1..SampleShape[1] -> ImplantSlices(d)],
              t \in RoiTargets(d),
              p \in PixelSizes } : d \in LabelDicts }

Samples == DegradationSamples \cup RoiSamples

\* the last call: its name, its argument, the number it returned or the
\* exception it raised, and the arrays it returned
Call(op, arg, out, arrays) == [op |-> op, arg |-> arg, out |-> out, arrays |-> arrays]
NoCall == Call("none", 0, Return(None), <<>>)
NoImage == <<>>
\* the arguments of create_roi_mask next to target_img, when it is not called
NoRoi == [ref_img |-> NoImage, roi_size |-> 0, pixel_size |-> 1, mask_pixel_value |-> 0,
          img_size |-> <<0, 0>>]

FnIdle ==
    /\ arg_image = NoImage
    /\ arg_label1 = 0
    /\ arg_label2 = 0
    /\ arg_roi = NoRoi
    /\ fn_ret = NoCall

\* Sample.__init__: the two stacks as loaded, nothing called yet
Init ==
    /\ \E s \in Samples :
          /\ label_dict = s.label_dict
          /\ ref_image = s.ref_image
          /\ target_image = s.target_image
          /\ num_days = s.num_days
          /\ pixel_size = s.pixel_size
    /\ img_size = <<SampleShape[2], SampleShape[3]>>
    /\ ret = NoCall
    /\ FnIdle

Frame == UNCHANGED <<ref_image, num_days, pixel_size, label_dict, img_size, fn_vars>>

GetInitialVolume ==
    /\ ret' = Call("get_initial_volume", 0, get_initial_volume(Self), <<>>)
    /\ UNCHANGED target_image
    /\ Frame

GetResidualVolume ==
    /\ ret' = Call("get_residual_volume", 0, get_residual_volume(Self), <<>>)
    /\ UNCHANGED target_image
    /\ Frame

GetInitialArea ==
    /\ ret' = Call("get_initial_area", 0, get_initial_area(Self), <<>>)
    /\ UNCHANGED target_image
    /\ Frame

GetTime ==
    /\ ret' = Call("get_time", 0, get_time(Self), <<>>)
    /\ UNCHANGED target_image
    /\ Frame

GetDegradationRate ==
    /\ ret' = Call("get_degradation_rate", 0, get_degradation_rate(Self), <<>>)
    /\ UNCHANGED target_image
    /\ Frame

GetBICImages ==
    /\ ret' = Call("get_BIC_images", 0, Return(None), get_BIC_images(Self, TRUE))
    /\ UNCHANGED target_image
    /\ Frame

GetBoneToImplantContact ==
    /\ ret' = Call("get_bone_to_implant_contact", 0, get_bone_to_implant_contact(Self), <<>>)
    /\ UNCHANGED target_image
    /\ Frame

GetBoneVolumeToTotalVolume ==
    \E roi_size \in RoiSizes :
        LET r == get_bone_volume_to_total_volume(Self, roi_size)
        IN  /\ ret' = Call("get_bone_volume_to_total_volume", roi_size, r.out, <<>>)
            /\ target_image' = r.target_image
            /\ Frame

Next ==
    \/ GetInitialVolume
    \/ GetResidualVolume
    \/ GetInitialArea
    \/ GetTime
    \/ GetDegradationRate
    \/ GetBICImages
    \/ GetBoneToImplantContact
    \/ GetBoneVolumeToTotalVolume

Spec == Init /\ [][Next]_vars

(***************************************************************************)
(* The module-level functions called on their own.                         *)
(***************************************************************************)
\* every 1 x 1 x N stack, N <= MaxLen, over the labels 0 .. MaxLabel
Lines == UNION {Stacks(1, 1, n, 0..MaxLabel) : n \in 1..MaxLen}
\* every 2 x 2 x 2 stack over the two labels 0 and MaxLabel
Cubes == Stacks(2, 2, 2, {0, MaxLabel})
\* the 5 x 5 x 5 stacks of label 1 with one full boundary face of label 0
FaceCubes ==
    { [z \in 1..5 |-> [y \in 1..5 |-> [x \in 1..5 |->
          IF <<z, y, x>>[axis] = side THEN 0 ELSE 1]]] : axis \in 1..3, side \in {1, 5} }
FnImages == Lines \cup Cubes \cup FaceCubes

SampleIdle ==
    /\ ref_image = NoImage
    /\ target_image = NoImage
    /\ num_days = 0
    /\ pixel_size = 1
    /\ label_dict = [background |-> 0, screw |-> 1, screw_ref |-> 2, degradation_layer |-> 3,
                     bone |-> 4]
    /\ img_size = <<0, 0>>
    /\ ret = NoCall

InitFn ==
    /\ arg_image \in FnImages
    /\ arg_label1 \in 0..(MaxLabel + 1)
    /\ arg_label2 \in 0..(MaxLabel + 1)
    /\ arg_roi = NoRoi
    /\ fn_ret = NoCall
    /\ SampleIdle

FrameFn == UNCHANGED <<arg_image, arg_label1, arg_label2, arg_roi, sample_vars>>

CallCountVoxelsPerLabel ==
    /\ fn_ret' = Call("count_voxels_per_label", 0,
                      count_voxels_per_label(arg_image, arg_label1), <<>>)
    /\ FrameFn

CallContactArea ==
    /\ fn_ret' = Call("contact_area", 0,
                      contact_area(arg_image, arg_label1, arg_label2), <<>>)
    /\ FrameFn

\* contact_area_layer on slice z of the stack
CallContactAreaLayer ==
    \E z \in 1..Len(arg_image) :
        /\ fn_ret' = Call("contact_area_layer", z,
                          contact_area_layer(arg_image[z], arg_label1, arg_label2), <<>>)
        /\ FrameFn

\* filter_labels with the list [label1, label2]; the image is not written
CallFilterLabels ==
    /\ fn_ret' = Call("filter_labels", 0, Return(None),
                      <<Stored(filter_labels(arg_image, <<arg_label1, arg_label2>>))>>)
    /\ FrameFn

NextFn ==
    \/ CallCountVoxelsPerLabel
    \/ CallContactArea
    \/ CallContactAreaLayer
    \/ CallFilterLabels

SpecFn == InitFn /\ [][NextFn]_vars

(***************************************************************************)
(* create_roi_mask called on its own.                                      *)
(***************************************************************************)
\* shape (Z, Y, X) of the stacks handed to create_roi_mask
RoiShape == <<2, 2, 2>>
\* every reference with voxels 0 and MaxLabel
RoiRefs == Stacks(RoiShape[1], RoiShape[2], RoiShape[3], {0, MaxLabel})
\* the targets: equal slices holding the screw and the bone code of the
\* docstring of Sample
RoiTargetStacks ==
    { [z \in 1..RoiShape[1] |-> slice] :
        slice \in [1..RoiShape[2] -> [1..RoiShape[3] -> {1, 3}]] }
\* mask_pixel_value: the background and the screw code of that docstring
RoiFills == {0, 1}

InitRoi ==
    /\ arg_image \in RoiTargetStacks
    /\ \E r \in RoiRefs, roi_size \in RoiSizes, ps \in PixelSizes, fill \in RoiFills :
          arg_roi = [ref_img |-> r, roi_size |-> roi_size, pixel_size |-> ps,
                     mask_pixel_value |-> fill, img_size |-> <<RoiShape[2], RoiShape[3]>>]
    /\ arg_label1 = 0
    /\ arg_label2 = 0
    /\ fn_ret = NoCall
    /\ SampleIdle

\* create_roi_mask(ref_img, target_img, ...): target_img is written in place
\* and returned, so the caller's array is the result afterwards.  arg is 1
\* when target_img was the array the previous call returned.
CallCreateRoiMask ==
    LET out == Stored(create_roi_mask(arg_roi.ref_img, arg_image, arg_roi.roi_size,
                                      arg_roi.pixel_size, arg_roi.mask_pixel_value,
                                      arg_roi.img_size))
    IN  /\ fn_ret' = Call("create_roi_mask", IF fn_ret.op = "create_roi_mask" THEN 1 ELSE 0,
                          Return(None), <<out>>)
        /\ arg_image' = out
        /\ UNCHANGED <<arg_label1, arg_label2, arg_roi, sample_vars>>

NextRoi == CallCreateRoiMask

SpecRoi == InitRoi /\ [][NextRoi]_vars

(***************************************************************************)
(* Properties.  What a claim speaks of is defined here from the claim's    *)
(* words, not from the functions above.                                    *)
(***************************************************************************)
\* the label occurs in the stack / in the slice
Occurs(image, label) == \E p \in Voxels(image) : image[p[1]][p[2]][p[3]] = label
OccursLayer(layer, label) == \E p \in Pixels(layer) : layer[p[1]][p[2]] = label

\* number of voxels equal to the label
VoxelCount(image, label) == Cardinality({p \in Voxels(image) : image[p[1]][p[2]][p[3]] = label})

\* p and q differ by 1 along exactly one axis and not at all along the others
Neighbours(p, q) == Abs(p[1] - q[1]) + Abs(p[2] - q[2]) + Abs(p[3] - q[3]) = 1

\* the unordered pairs of neighbouring voxels, one labelled a and one b
AdjacentPairs(image, a, b) ==
    { {pq[1], pq[2]} : pq \in { pq \in Voxels(image) \X Voxels(image) :
                                  /\ Neighbours(pq[1], pq[2])
                                  /\ image[pq[1][1]][pq[1][2]][pq[1][3]] = a
                                  /\ image[pq[2][1]][pq[2][2]][pq[2][3]] = b } }

\* on a 1 x 1 x N stack: the positions i whose elements i, i + 1 are
\* labelled a and b in either order
ConsecutivePairs(row, a, b) ==
    { i \in 1..(Len(row) - 1) : {row[i], row[i + 1]} = {a, b} }

IsUniform(image) == \A p, q \in Voxels(image) : image[p[1]][p[2]][p[3]] = image[q[1]][q[2]][q[3]]
IsUniformLayer(layer) == \A p, q \in Pixels(layer) : layer[p[1]][p[2]] = layer[q[1]][q[2]]

\* C1: no get_* call changes a voxel of the Sample's reference volume or of
\* its target volume: both stay what they were after construction.
C1_VolumesNeverWritten ==
    [][ref_image' = ref_image /\ target_image' = target_image]_vars

\* C2: what a get_* call returns does not depend on the calls made before
\* it: no call changes what get_residual_volume() returns next, nor what
\* get_bone_volume_to_total_volume(r) returns next, for any radius r.
C2_CallsIndependentOfHistory ==
    [][/\ get_residual_volume(Self') = get_residual_volume(Self)
       /\ \A r \in RoiSizes :
            get_bone_volume_to_total_volume(Self', r).out
                = get_bone_volume_to_total_volume(Self, r).out]_vars

\* C3: for labels a # b that both occur, contact_area returns the number of
\* unordered pairs of axis neighbours labelled a and b, each counted once:
\* 25 on the 5 x 5 x 5 stack of label 1 with one boundary face of label 0,
\* and the number of consecutive pairs labelled {a, b} on a 1 x 1 x N stack.
C3_ContactCountsAdjacentPairs ==
    (/\ fn_ret.op = "contact_area"
     /\ arg_label1 # arg_label2
     /\ Occurs(arg_image, arg_label1)
     /\ Occurs(arg_image, arg_label2))
    => /\ fn_ret.out = Return(PyInt(Cardinality(AdjacentPairs(arg_image, arg_label1, arg_label2))))
       /\ arg_image \in FaceCubes => fn_ret.out = Return(PyInt(25))
       /\ (Len(arg_image) = 1 /\ Len(arg_image[1]) = 1)
            => fn_ret.out = Return(PyInt(Cardinality(
                   ConsecutivePairs(arg_image[1][1], arg_label1, arg_label2))))

\* contact_area has counted the 25 pairs across the face of a 5 x 5 x 5 stack
C3_Witness ==
    /\ fn_ret.op = "contact_area"
    /\ arg_image \in FaceCubes
    /\ arg_label1 = 0
    /\ arg_label2 = 1
    /\ fn_ret.out = Return(PyInt(25))

\* C4: contact_area and contact_area_layer raise the invalid-label error
\* whenever one of the two labels has no voxel in the image they are given.
C4_AbsentLabelRaises ==
    /\ (/\ fn_ret.op = "contact_area"
        /\ ~(Occurs(arg_image, arg_label1) /\ Occurs(arg_image, arg_label2)))
       => fn_ret.out = Raise("ValueError")
    /\ (/\ fn_ret.op = "contact_area_layer"
        /\ ~(/\ OccursLayer(arg_image[fn_ret.arg], arg_label1)
             /\ OccursLayer(arg_image[fn_ret.arg], arg_label2)))
       => fn_ret.out = Raise("ValueError")

\* C5 as stated: on a stack whose voxels all carry one label, contact_area
\* returns 0 for labels a # b.
C5_UniformReturnsZero ==
    (/\ fn_ret.op = "contact_area"
     /\ IsUniform(arg_image)
     /\ arg_label1 # arg_label2)
    => fn_ret.out = Return(PyInt(0))

\* C5 as amended: on a stack (a slice) whose voxels all carry one label,
\* contact_area (contact_area_layer) returns no count for labels a # b: one
\* of the two labels does not occur, and the call raises the invalid-label
\* error.
C5_UniformRaisesInvalidLabel ==
    /\ (/\ fn_ret.op = "contact_area"
        /\ IsUniform(arg_image)
        /\ arg_label1 # arg_label2)
       => fn_ret.out = Raise("ValueError")
    /\ (/\ fn_ret.op = "contact_area_layer"
        /\ IsUniformLayer(arg_image[fn_ret.arg])
        /\ arg_label1 # arg_label2)
       => fn_ret.out = Raise("ValueError")

\* contact_area was called on a uniform stack with its own label and another
C5_Witness ==
    /\ fn_ret.op = "contact_area"
    /\ IsUniform(arg_image)
    /\ Len(arg_image[1][1]) > 1
    /\ arg_label1 = arg_image[1][1][1]
    /\ arg_label2 # arg_label1
    /\ fn_ret.out.kind = "raise"

\* C6: count_voxels_per_label returns the number of voxels equal to the
\* label, which is 0 for a label that does not occur, in or out of the
\* range of the values present.
C6_CountIsExactAndTotal ==
    fn_ret.op = "count_voxels_per_label"
    => fn_ret.out = Return(NpInt(VoxelCount(arg_image, arg_label1)))

\* After get_bone_volume_to_total_volume the ROI-masked target is the
\* Sample's target_image (the call wrote the mask into it).
\* C7: get_bone_volume_to_total_volume returns v_bone / (v_bone +
\* v_background), the numbers of bone and of background voxels of the
\* ROI-masked target, whatever labels the masked target holds (checked where
\* the fraction is defined, v_bone + v_background > 0).
C7_BvTvIsBoneFraction ==
    (/\ ret.op = "get_bone_volume_to_total_volume"
     /\ VoxelCount(target_image, label_dict.bone)
          + VoxelCount(target_image, label_dict.background) > 0)
    => ret.out = Return(Num("np.float64",
                            VoxelCount(target_image, label_dict.bone),
                            VoxelCount(target_image, label_dict.bone)
                              + VoxelCount(target_image, label_dict.background)))

\* C8: get_degradation_rate ends in an error, never in a returned value,
\* whenever a divisor is zero: no adjacent background/screw_ref pair in the
\* reference (initial area 0), num_days = 0 (elapsed time 0), or no
\* screw_ref voxel in the reference (initial volume 0).
C8_ZeroDivisorRaises ==
    (/\ ret.op = "get_degradation_rate"
     /\ \/ AdjacentPairs(ref_image, label_dict.background, label_dict.screw_ref) = {}
        \/ num_days = 0
        \/ VoxelCount(ref_image, label_dict.screw_ref) = 0)
    => ret.out.kind = "raise"

\* the ROI-masked screw volume of get_bone_to_implant_contact
MaskedScrew == get_BIC_images(Self, TRUE)[1]

\* C9: get_bone_to_implant_contact raises, and returns nothing, whenever
\* the ROI-masked screw volume has no adjacent screw/background pair.
C9_BicWithoutImplantContactRaises ==
    (/\ ret.op = "get_bone_to_implant_contact"
     /\ AdjacentPairs(MaskedScrew, label_dict.screw, label_dict.background) = {})
    => ret.out.kind = "raise"

\* get_bone_to_implant_contact was called on a Sample whose masked screw
\* volume holds screw and background with no pair of them adjacent, and the
\* division raised
C9_Witness ==
    /\ ret.op = "get_bone_to_implant_contact"
    /\ Occurs(MaskedScrew, label_dict.screw)
    /\ Occurs(MaskedScrew, label_dict.background)
    /\ AdjacentPairs(MaskedScrew, label_dict.screw, label_dict.background) = {}
    /\ ret.out = Raise("ZeroDivisionError")

\* C10: a value returned by get_bone_volume_to_total_volume is a number in
\* the closed interval [0, 1].
C10_BvTvInUnitInterval ==
    (/\ ret.op = "get_bone_volume_to_total_volume"
     /\ ret.out.kind = "return")
    => /\ ret.out.val.fl = "finite"
       /\ 0 <= ret.out.val.num
       /\ ret.out.val.num <= ret.out.val.den

\* m: an integer nearest to n / d
NearestIntegers(n, d) ==
    { k \in 0..(n \div d + 1) :
        \A j \in 0..(n \div d + 1) : Abs(n - k * d) <= Abs(n - j * d) }

\* some voxel of the reference slice with value > 0 lies at Euclidean
\* distance < m of (y, x)
NearImplant(ref_slice, y, x, m) ==
    \E q \in Pixels(ref_slice) :
        /\ ref_slice[q[1]][q[2]] > 0
        /\ (y - q[1]) * (y - q[1]) + (x - q[2]) * (x - q[2]) < m * m

\* the target with every voxel that is not near the implant set to fill
MaskedAsSpecified(ref, target, m, fill) ==
    [z \in 1..Len(target) |->
        [y \in 1..Len(target[z]) |->
            [x \in 1..Len(target[z][y]) |->
                IF NearImplant(ref[z], y, x, m) THEN target[z][y][x] ELSE fill]]]

\* C11: create_roi_mask returns the target in which a voxel (z, y, x) keeps
\* its value if a voxel > 0 of reference slice z lies at Euclidean distance
\* < m = round(roi_size / pixel_size) inside the slice, and holds the fill
\* label otherwise; a slice whose reference has no voxel > 0 is all fill.
C11_MaskKeepsVoxelsNearImplant ==
    [][fn_ret'.op = "create_roi_mask"
       => \E m \in NearestIntegers(arg_roi.roi_size, arg_roi.pixel_size) :
            arg_image' = Stored(MaskedAsSpecified(arg_roi.ref_img, arg_image, m,
                                                  arg_roi.mask_pixel_value))]_vars

\* C12: contact counting is symmetric in its labels: contact_area(V, a, b)
\* and contact_area(V, b, a) end the same way, with the same count or both
\* with the invalid-label error, for a # b; so does contact_area_layer on a
\* slice.
C12_ContactIsSymmetric ==
    /\ (fn_ret.op = "contact_area" /\ arg_label1 # arg_label2)
       => fn_ret.out = contact_area(arg_image, arg_label2, arg_label1)
    /\ (fn_ret.op = "contact_area_layer" /\ arg_label1 # arg_label2)
       => fn_ret.out = contact_area_layer(arg_image[fn_ret.arg], arg_label2, arg_label1)

\* contact_area has counted at least one pair for two different labels of
\* which the first is the larger
C12_Witness ==
    /\ fn_ret.op = "contact_area"
    /\ arg_label1 > arg_label2
    /\ fn_ret.out.kind = "return"
    /\ fn_ret.out.val.num > 0

\* C13: ROI masking is idempotent: create_roi_mask applied to what
\* create_roi_mask returned, with the same reference, radius, pixel size and
\* fill label, returns an equal volume.
C13_MaskingIsIdempotent ==
    fn_ret.op = "create_roi_mask"
    => Stored(create_roi_mask(arg_roi.ref_img, arg_image, arg_roi.roi_size,
                              arg_roi.pixel_size, arg_roi.mask_pixel_value,
                              arg_roi.img_size)) = arg_image

\* create_roi_mask was applied a second time, to a result in which one voxel
\* was kept and another filled
C13_Witness ==
    /\ fn_ret.op = "create_roi_mask"
    /\ fn_ret.arg = 1
    /\ Occurs(arg_image, 3)
    /\ Occurs(arg_image, arg_roi.mask_pixel_value)
    /\ fn_ret.arrays[1] = arg_image

\* C14: with roi_size = 0 the threshold is 0 and create_roi_mask sets every
\* voxel of the target to the fill label, the voxels on reference voxels > 0
\* included.
C14_ZeroRadiusFillsAll ==
    (fn_ret.op = "create_roi_mask" /\ arg_roi.roi_size = 0)
    => \A p \in Voxels(arg_image) : arg_image[p[1]][p[2]][p[3]] = arg_roi.mask_pixel_value

\* create_roi_mask was called with roi_size = 0 and a reference whose voxels
\* are all > 0, and the target is all fill
C14_Witness ==
    /\ fn_ret.op = "create_roi_mask"
    /\ arg_roi.roi_size = 0
    /\ \A p \in Voxels(arg_roi.ref_img) : arg_roi.ref_img[p[1]][p[2]][p[3]] > 0
    /\ IsUniform(arg_image)
    /\ arg_image[1][1][1] = arg_roi.mask_pixel_value

\* C15: filter_labels returns an array of the shape of the image whose voxel
\* v holds image[v] if image[v] is one of the labels and 0 otherwise; the
\* image is left as it was.
C15_FilterKeepsListedLabels ==
    fn_ret.op = "filter_labels"
    => fn_ret.arrays[1] =
         Stored([z \in 1..Len(arg_image) |->
                    [y \in 1..Len(arg_image[z]) |->
                        [x \in 1..Len(arg_image[z][y]) |->
                            IF arg_image[z][y][x] \in {arg_label1, arg_label2}
                            THEN arg_image[z][y][x] ELSE 0]]])

====
